---- MODULE Spec2Model ----
(***************************************************************************)
(* Batch tracking job engine of merlin_darkui: the in-memory job store     *)
(* (server/storage.ts), the job routes (server/routes.ts) and the row      *)
(* processing loop with the MAWB splitter (server/tracking.ts).            *)
(*                                                                         *)
(* Strings the program inspects character by character (MAWB identifiers)  *)
(* are sequences of one-character strings.                                 *)
(*                                                                         *)
(* Scheduling is Node's: one callback runs at a time and every promise     *)
(* continuation it queues runs before the next callback.  MemStorage       *)
(* awaits only resolved promises, so a loop suspends for other callbacks   *)
(* at exactly two places: the lookup call (network) and the pacing timer.  *)
(* `running` names the job whose continuation chain is executing; a new    *)
(* callback (a request handler, a lookup reply, a timer) starts only when  *)
(* it is 0.                                                                *)
(***************************************************************************)
EXTENDS Integers, Sequences, FiniteSets, TLC

(* ------------------------------ bounds --------------------------------- *)
\* upload requests handled, data rows uploaded over all jobs, control
\* requests handled
MaxJobs == 2
MaxRows == 2
MaxControls == 2
\* viewers connected to the WebSocket server
MaxViewers == 1
\* characters put before and after an identifier given to the splitter
MaxPad == 1

(* ---------------------------- identifiers ------------------------------ *)
MawbA == <<"1","1","1","-","2","2","2","2","2","2","2","2">>
MawbBad == <<"b","a","d">>
Identifiers == {MawbA, MawbBad}

(* --------------------------- splitMAWB --------------------------------- *)
Digits == {"0","1","2","3","4","5","6","7","8","9"}
Whitespace == {" ", "\t", "\n", "\r"}

RECURSIVE TrimLeft(_)
TrimLeft(s) ==
  IF s # <<>> /\ Head(s) \in Whitespace THEN TrimLeft(Tail(s)) ELSE s

RECURSIVE TrimRight(_)
TrimRight(s) ==
  IF s # <<>> /\ s[Len(s)] \in Whitespace
  THEN TrimRight(SubSeq(s, 1, Len(s) - 1)) ELSE s

\* mawb.trim()
Trim(s) == TrimRight(TrimLeft(s))

IsNotSpace(c) == c \notin Whitespace

\* .replace(/\s/g, '')
RemoveSpaces(s) == SelectSeq(s, IsNotSpace)

\* mawb.split('-'): the parts between hyphens, empty parts kept
RECURSIVE SplitHyphen(_)
SplitHyphen(s) ==
  LET hy == {i \in 1..Len(s) : s[i] = "-"} IN
  IF hy = {} THEN <<s>>
  ELSE LET i == CHOOSE k \in hy : \A m \in hy : k <= m IN
       <<SubSeq(s, 1, i - 1)>> \o SplitHyphen(SubSeq(s, i + 1, Len(s)))

AllDigits(s, from, to) ==
  /\ to <= Len(s)
  /\ \A k \in from..to : s[k] \in Digits

\* /(\d{3})[- ]?(\d{8})/ matched at position i with a separator of width sep
MatchesAt(s, i, sep) ==
  /\ AllDigits(s, i, i + 2)
  /\ sep = 1 => (i + 3 <= Len(s) /\ s[i + 3] \in {"-", " "})
  /\ AllDigits(s, i + 3 + sep, i + 10 + sep)

MatchStarts(s) ==
  {i \in 1..Len(s) : \E sep \in {0, 1} : MatchesAt(s, i, sep)}

\* Variant of RegexGroups: the groups of the rightmost match.
RegexGroupsOfLast(s) ==
  LET i == CHOOSE k \in MatchStarts(s) : \A m \in MatchStarts(s) : k >= m
      sep == IF MatchesAt(s, i, 1) THEN 1 ELSE 0
  IN [prefix |-> SubSeq(s, i, i + 2),
      awbNo |-> SubSeq(s, i + 3 + sep, i + 10 + sep)]

\* String.prototype.match: the leftmost match, its two groups
RegexGroups(s) ==
  LET i == CHOOSE k \in MatchStarts(s) : \A m \in MatchStarts(s) : k <= m
      sep == IF MatchesAt(s, i, 1) THEN 1 ELSE 0
  IN [prefix |-> SubSeq(s, i, i + 2),
      awbNo |-> SubSeq(s, i + 3 + sep, i + 10 + sep)]

\* Variant of splitMAWB: the two parts around the hyphen are taken only
\* when they are three and eight digits.
splitMAWBDigitsOnly(mawb) ==
  LET s == RemoveSpaces(Trim(mawb))
      parts == SplitHyphen(s)
  IN IF /\ Len(parts) = 2
        /\ Len(parts[1]) = 3 /\ AllDigits(parts[1], 1, 3)
        /\ Len(parts[2]) = 8 /\ AllDigits(parts[2], 1, 8)
     THEN [prefix |-> parts[1], awbNo |-> parts[2]]
     ELSE IF MatchStarts(s) # {} THEN RegexGroups(s)
     ELSE [prefix |-> <<>>, awbNo |-> <<>>]

\* Variant of splitMAWB: the first two parts are taken whenever there is a
\* hyphen, however many parts there are.
splitMAWBFirstTwoParts(mawb) ==
  LET s == RemoveSpaces(Trim(mawb))
      parts == SplitHyphen(s)
  IN IF Len(parts) >= 2 THEN [prefix |-> parts[1], awbNo |-> parts[2]]
     ELSE IF MatchStarts(s) # {} THEN RegexGroups(s)
     ELSE [prefix |-> <<>>, awbNo |-> <<>>]

splitMAWB(mawb) ==
  LET s == RemoveSpaces(Trim(mawb))
      parts == SplitHyphen(s)
  IN IF Len(parts) = 2 THEN [prefix |-> parts[1], awbNo |-> parts[2]]
     ELSE IF MatchStarts(s) # {} THEN RegexGroups(s)
     ELSE [prefix |-> <<>>, awbNo |-> <<>>]

\* if (!prefix || !awbNo): an empty string is falsy
Rejected(mawb) ==
  LET key == splitMAWB(mawb) IN key.prefix = <<>> \/ key.awbNo = <<>>

(* ------------------------------ state ---------------------------------- *)
VARIABLES
  trackJobs,     \* MemStorage.trackJobs: job id -> job record (id = index)
  trackResults,  \* MemStorage.trackResults: result id -> result (id = index)
  createdBy,     \* history: for each stored result, the job and row that made it
  loop,          \* per job: position and locals of processCSVFile/processExcelFile
  events,        \* per job: the messages broadcastMessage sent with that jobId
  lookups,       \* per job: the trackAWB calls made, with their outcome
                 \* and, as history, the pacing waits ended before the call
  controls,      \* number of control requests handled (to bound the model)
  notFound,      \* history: number of control requests answered 404
  badRequests,   \* history: the upload requests answered 400
  splitCall,     \* a call of splitMAWB on its own: the argument and, once it
                 \* has returned, the value returned
  clients,       \* wss.clients: per viewer its readyState, and as history the
                 \* number of messages sent to it and of sends that threw
  dashboard,     \* the Dashboard page of one viewer: its React state and, as
                 \* history, how many messages of each job its handler got
  history,       \* per job, while its loop had not ended: rows visited when it
                 \* was first cancelled from processing or paused (-1 if never),
                 \* and whether it was resumed from paused; and the job record
                 \* and rows visited when the upload request was answered
                 \* the number of pacing waits of its loop that have ended,
                 \* and the row the loop was at when a write to the store
                 \* first failed (-1 if none did)
  running        \* job whose continuation chain is executing, 0 if none

vars == <<trackJobs, trackResults, createdBy, loop, events, lookups, controls,
         notFound, splitCall, badRequests, clients, dashboard, history, running>>

JobIds == 1..Len(trackJobs)

Terminal == {"completed", "failed", "cancelled"}

\* No call of splitMAWB on its own is made.
NoCall == [mawb |-> <<>>, returned |-> TRUE, result |-> [prefix |-> <<>>, awbNo |-> <<>>]]

(* ------------------------------ inputs --------------------------------- *)
RECURSIVE SeqsUpTo(_, _)
SeqsUpTo(S, n) ==
  IF n = 0 THEN {<<>>}
  ELSE LET shorter == SeqsUpTo(S, n - 1) IN
       shorter \cup {Append(s, x) : s \in {t \in shorter : Len(t) = n - 1}, x \in S}

\* Identifiers for the splitter on its own: up to four leading digits, a
\* separator, a run of no, seven, eight or nine digits, with up to MaxPad
\* other characters before and after.
DigitString == <<"1","2","3","4","5","6","7","8","9","0","1","2","3">>
PadChars == {"x", " ", "-"}
Separators == {<<>>, <<"-">>, <<" ">>, <<"x">>, <<"-", "-">>}

SplitInputs ==
  {pre \o SubSeq(DigitString, 1, a) \o sep \o SubSeq(DigitString, a + 1, a + b) \o post :
     pre \in SeqsUpTo(PadChars, MaxPad), a \in 0..4, sep \in Separators,
     b \in {0, 7, 8, 9}, post \in SeqsUpTo(PadChars, MaxPad)}

\* What the parser makes of an uploaded file: it throws, or it yields
\* records with or without a column whose header contains MAWB.
Files ==
  {[parse |-> "throws", mawbColumn |-> FALSE, rows |-> <<>>]}
  \cup {[parse |-> "ok", mawbColumn |-> FALSE, rows |-> <<MawbA>>]}
  \cup {[parse |-> "ok", mawbColumn |-> TRUE, rows |-> r] : r \in SeqsUpTo(Identifiers, MaxRows)}

\* What trackAWB gives back: it throws, or it returns the parsed fields
\* (here the status text, possibly empty).
Replies == {[ok |-> FALSE, status |-> ""], [ok |-> TRUE, status |-> "Delivered"]}

\* The loop's trackResult local outside the block that declares it.
NoResult == [mawb |-> <<>>, prefix |-> <<>>, awbNo |-> <<>>, status |-> ""]

(* ------------------------ the Dashboard page --------------------------- *)
\* Entries the page's log and result list hold together before the handler
\* is given no further message (to bound the model).
MaxMessages == 3

\* activeJobId === null
NoJob == 0

\* The page as mounted: the initial values of its useState calls.
NewDashboard ==
  [activeJobId |-> NoJob, logs |-> <<>>, results |-> <<>>,
   progress |-> [current |-> 0, total |-> 0], jobStatus |-> "pending",
   seen |-> [j \in 1..MaxJobs |-> 0]]

\* wsRef.current.onmessage, given the page d and the parsed message
onmessage(d, message) ==
  IF d.activeJobId # NoJob /\ message.jobId # d.activeJobId
  THEN d
  ELSE CASE message.body.type = "log" ->
              [d EXCEPT !.logs = Append(@, [level |-> message.body.level,
                                            row |-> message.body.row,
                                            mawb |-> message.body.mawb])]
         [] message.body.type = "progress" ->
              [d EXCEPT !.progress = [current |-> message.body.current,
                                      total |-> message.body.total]]
         [] message.body.type = "result" ->
              [d EXCEPT !.results = Append(@, message.body.data)]
         [] message.body.type = "complete" ->
              [d EXCEPT !.jobStatus = "completed"]

(* ------------------------ splitMAWB on its own ------------------------- *)
\* A request hands its identifier to splitMAWB (POST /api/track/single).
InitSplit ==
  /\ trackJobs = <<>>
  /\ trackResults = <<>>
  /\ createdBy = <<>>
  /\ loop = <<>>
  /\ events = <<>>
  /\ lookups = <<>>
  /\ controls = 0
  /\ notFound = 0
  /\ badRequests = <<>>
  /\ clients = <<>>
  /\ dashboard = NewDashboard
  /\ history = <<>>
  /\ running = 0
  /\ \E mawb \in SplitInputs :
       splitCall = [mawb |-> mawb, returned |-> FALSE,
                    result |-> [prefix |-> <<>>, awbNo |-> <<>>]]

\* const { prefix, awbNo } = splitMAWB(body.mawb)
SplitReturns ==
  /\ ~splitCall.returned
  /\ splitCall' = [splitCall EXCEPT !.returned = TRUE,
                                    !.result = splitMAWB(splitCall.mawb)]
  /\ UNCHANGED <<trackJobs, trackResults, createdBy, loop, events, lookups,
                 controls, notFound, badRequests, clients, dashboard, history,
                 running>>

NextSplit == SplitReturns

SpecSplit == InitSplit /\ [][NextSplit]_vars

(* ---------------------------- MemStorage ------------------------------- *)
createTrackJob(jobs) ==
  Append(jobs, [status |-> "pending", totalCount |-> 0, processedCount |-> 0])

\* Variant of updateTrackJobStatus: the status is written to every record
\* of the map, not only to the one with the given id.
updateTrackJobStatusOfAll(jobs, id, status) ==
  [k \in DOMAIN jobs |-> [jobs[k] EXCEPT !.status = status]]

\* Variant of updateTrackJobStatus: the updated record is built without the
\* stored job's other fields.
updateTrackJobStatusDropsCount(jobs, id, status) ==
  [jobs EXCEPT ![id] = [status |-> status, totalCount |-> 0, processedCount |-> 0]]

updateTrackJobStatus(jobs, id, status) ==
  [jobs EXCEPT ![id].status = status]

\* Variant of updateTrackJobProgress: the record is written back with the
\* status the loop set when it started, not the stored one.
updateTrackJobProgressStaleStatus(jobs, id, processedCount) ==
  [jobs EXCEPT ![id] = [status |-> "processing", totalCount |-> @.totalCount,
                        processedCount |-> processedCount]]

updateTrackJobProgress(jobs, id, processedCount) ==
  [jobs EXCEPT ![id].processedCount = processedCount]

\* Variant of createTrackResult: the id counter is not advanced, so every
\* result after the first is set under the id of the one before it.
createTrackResultSameId(results, insertResult) ==
  IF results = <<>>
  THEN <<[id |-> Len(results) + 1,
          mawb |-> insertResult.mawb,
          prefix |-> insertResult.prefix,
          awbNo |-> insertResult.awbNo,
          status |-> insertResult.status]>>
  ELSE [results EXCEPT ![Len(results)] =
          [id |-> Len(results),
           mawb |-> insertResult.mawb,
           prefix |-> insertResult.prefix,
           awbNo |-> insertResult.awbNo,
           status |-> insertResult.status]]

createTrackResult(results, insertResult) ==
  Append(results, [id |-> Len(results) + 1,
                   mawb |-> insertResult.mawb,
                   prefix |-> insertResult.prefix,
                   awbNo |-> insertResult.awbNo,
                   status |-> insertResult.status])

getTrackResultsByJob(jobId) == trackResults

(* --------------------------- broadcastMessage -------------------------- *)
\* The message, tagged with the job id, as handed to the viewers.
broadcastMessage(ev, jobId, message) ==
  [ev EXCEPT ![jobId] = Append(@, message)]

\* wss.clients.forEach: client.send for every client whose readyState is
\* OPEN, when no send throws.
forEachSend(cl) ==
  [c \in DOMAIN cl |->
     IF cl[c].readyState = "OPEN" THEN [cl[c] EXCEPT !.received = @ + 1]
     ELSE cl[c]]

\* The same when the send to client c throws: the clients before c have
\* been served, forEach is left by the exception.
forEachSendThrowsAt(cl, c) ==
  [d \in DOMAIN cl |->
     IF d < c /\ cl[d].readyState = "OPEN" THEN [cl[d] EXCEPT !.received = @ + 1]
     ELSE IF d = c THEN [cl[d] EXCEPT !.failures = @ + 1]
     ELSE cl[d]]

(* ------------------------------- Init ---------------------------------- *)
Init ==
  /\ trackJobs = <<>>
  /\ trackResults = <<>>
  /\ createdBy = <<>>
  /\ loop = <<>>
  /\ events = <<>>
  /\ lookups = <<>>
  /\ controls = 0
  /\ notFound = 0
  /\ badRequests = <<>>
  /\ clients = <<>>
  /\ dashboard = NewDashboard
  /\ splitCall = NoCall
  /\ history = <<>>
  /\ running = 0

\* Data rows uploaded so far, over all jobs (to bound the model).
RECURSIVE RowsOf(_)
RowsOf(ls) ==
  IF ls = <<>> THEN 0 ELSE Len(Head(ls).file.rows) + RowsOf(Tail(ls))

(* ----------------- POST /api/track/file: request body ------------------ *)
\* z.coerce.number().min(50).max(1000).default(100)
MinDelay == 50
MaxDelay == 1000
DefaultDelay == 100

\* The delay field of the multipart body: absent, a text that Number()
\* turns into NaN, or a number.
NoDelay == [kind |-> "absent", value |-> 0]
NotANumber == [kind |-> "nan", value |-> 0]
DelayOf(n) == [kind |-> "number", value |-> n]

\* Bodies of the default specification: the field is left out.
Bodies == {NoDelay}

\* Bodies with the field, around the limits of the schema.
BodiesWithDelay ==
  {NoDelay, NotANumber}
  \cup {DelayOf(n) : n \in {MinDelay - 1, MinDelay, MaxDelay, MaxDelay + 1}}

\* Does the schema's parse throw for this body?
DelayInvalid(body) ==
  \/ body.kind = "nan"
  \/ body.kind = "number" /\ (body.value < MinDelay \/ body.value > MaxDelay)

\* body.delay after a parse that did not throw
ParsedDelay(body) ==
  IF body.kind = "absent" THEN DefaultDelay ELSE body.value

\* No file part in the request (req.file is undefined)
NoFile == [parse |-> "none", mawbColumn |-> FALSE, rows |-> <<>>]

\* The parse and the column search throw for an unparsable file, a file
\* without records and a file without a MAWB column.
Throws(file) ==
  file.parse = "throws" \/ file.rows = <<>> \/ ~file.mawbColumn

(* ------------------------ POST /api/track/file ------------------------- *)
\* Variant of CreateJob: the processing function's first status write is
\* made before the handler answers.
CreateJobStartsFirst(file, delay) ==
  /\ running = 0
  /\ Len(trackJobs) + Len(badRequests) < MaxJobs
  /\ RowsOf(loop) + Len(file.rows) <= MaxRows
  /\ trackJobs' = updateTrackJobStatus(createTrackJob(trackJobs),
                     Len(trackJobs) + 1,
                     IF Throws(file) THEN "failed" ELSE "processing")
  /\ loop' = Append(loop, [pc |-> "start", file |-> file, delay |-> delay,
                           processedCount |-> 0, totalCount |-> 0,
                           trackResult |-> NoResult])
  /\ events' = Append(events, <<>>)
  /\ lookups' = Append(lookups, <<>>)
  /\ running' = Len(trackJobs) + 1
  /\ history' = Append(history,
        [cancelAt |-> -1, resumed |-> FALSE, waits |-> 0, storeFailed |-> -1,
         returned |-> [job |-> trackJobs'[Len(trackJobs) + 1],
                       visited |-> loop'[Len(trackJobs) + 1].processedCount]])
  /\ UNCHANGED <<trackResults, createdBy, controls, notFound, splitCall, dashboard, badRequests, clients>>

\* The handler creates the job and starts the processing function, which
\* runs up to its first await (inside its first updateTrackJobStatus call,
\* before the write); then the handler answers with the job id.
CreateJob(file, delay) ==
  /\ running = 0
  /\ Len(trackJobs) + Len(badRequests) < MaxJobs
  /\ RowsOf(loop) + Len(file.rows) <= MaxRows
  /\ trackJobs' = createTrackJob(trackJobs)
  /\ loop' = Append(loop, [pc |-> "start", file |-> file, delay |-> delay,
                           processedCount |-> 0, totalCount |-> 0,
                           trackResult |-> NoResult])
  /\ events' = Append(events, <<>>)
  /\ lookups' = Append(lookups, <<>>)
  /\ running' = Len(trackJobs) + 1
  /\ history' = Append(history,
        [cancelAt |-> -1, resumed |-> FALSE, waits |-> 0, storeFailed |-> -1,
         returned |-> [job |-> trackJobs'[Len(trackJobs) + 1],
                       visited |-> loop'[Len(trackJobs) + 1].processedCount]])
  /\ UNCHANGED <<trackResults, createdBy, controls, notFound, splitCall, dashboard, badRequests, clients>>

\* The whole handler: 400 without a file part or when the body fails the
\* schema (nothing is created), else the job is created and started.
Upload(file, body) ==
  IF file = NoFile \/ DelayInvalid(body)
  THEN /\ running = 0
       /\ Len(trackJobs) + Len(badRequests) < MaxJobs
       /\ badRequests' = Append(badRequests,
                                [noFile |-> file = NoFile, body |-> body])
       /\ UNCHANGED <<trackJobs, trackResults, createdBy, loop, events, lookups,
                      controls, notFound, splitCall, dashboard, clients, history, running>>
  ELSE CreateJob(file, ParsedDelay(body))

(* -------------------- processCSVFile / processExcelFile ---------------- *)
\* Either the catch block stores failed and rethrows, or the job becomes
\* processing and the loop is entered.
StartProcessing(j) ==
  /\ running = j
  /\ loop[j].pc = "start"
  /\ IF Throws(loop[j].file)
     THEN /\ trackJobs' = updateTrackJobStatus(trackJobs, j, "failed")
          /\ loop' = [loop EXCEPT ![j].pc = "rethrown"]
     ELSE /\ trackJobs' = updateTrackJobStatus(trackJobs, j, "processing")
          /\ loop' = [loop EXCEPT ![j].pc = "row",
                                  ![j].totalCount = Len(loop[j].file.rows)]
  /\ UNCHANGED <<trackResults, createdBy, events, lookups, controls, notFound, splitCall, dashboard, badRequests, clients, history, running>>

\* The catch of the route's background function stores failed once more.
RouteCatch(j) ==
  /\ running = j
  /\ loop[j].pc = "rethrown"
  /\ trackJobs' = updateTrackJobStatus(trackJobs, j, "failed")
  /\ loop' = [loop EXCEPT ![j].pc = "done"]
  /\ running' = 0
  /\ UNCHANGED <<trackResults, createdBy, events, lookups, controls, notFound, splitCall, dashboard, badRequests, clients, history>>

\* Variant of SkipRow: the warning is sent but the iteration is not left,
\* so the rejected identifier is looked up all the same.
SkipRowFallsThrough(j, processedCount, mawb) ==
  /\ events' = broadcastMessage(events, j,
        [type |-> "log", level |-> "warn", row |-> processedCount, mawb |-> mawb])
  /\ lookups' = [lookups EXCEPT ![j] = Append(@,
        [row |-> processedCount, prefix |-> <<>>, awbNo |-> <<>>,
         outcome |-> "pending", status |-> "", waits |-> history[j].waits])]
  /\ clients' = forEachSend(clients)
  /\ loop' = [loop EXCEPT ![j].processedCount = processedCount,
                          ![j].pc = "lookup"]
  /\ running' = 0
  /\ UNCHANGED trackJobs

\* if (!prefix || !awbNo): the warning, then `continue`
SkipRow(j, processedCount, mawb) ==
  /\ events' = broadcastMessage(events, j,
        [type |-> "log", level |-> "warn", row |-> processedCount, mawb |-> mawb])
  /\ clients' = forEachSend(clients)
  /\ loop' = [loop EXCEPT ![j].processedCount = processedCount]
  /\ UNCHANGED <<trackJobs, lookups, running>>

\* Variant of StartLookup: trackAWB is called but not awaited, the loop
\* goes on to the progress update with the call still in flight.
StartLookupNotAwaited(j, processedCount, mawb, key) ==
  /\ events' = broadcastMessage(events, j,
        [type |-> "log", level |-> "info", row |-> processedCount, mawb |-> mawb])
  /\ lookups' = [lookups EXCEPT ![j] = Append(@,
        [row |-> processedCount, prefix |-> key.prefix, awbNo |-> key.awbNo,
         outcome |-> "pending", status |-> "", waits |-> history[j].waits])]
  /\ clients' = forEachSend(clients)
  /\ loop' = [loop EXCEPT ![j].processedCount = processedCount,
                          ![j].pc = "progress"]
  /\ UNCHANGED <<trackJobs, running>>

\* The info log, then trackAWB(prefix, awbNo) is called and awaited.
StartLookup(j, processedCount, mawb, key) ==
  /\ events' = broadcastMessage(events, j,
        [type |-> "log", level |-> "info", row |-> processedCount, mawb |-> mawb])
  /\ lookups' = [lookups EXCEPT ![j] = Append(@,
        [row |-> processedCount, prefix |-> key.prefix, awbNo |-> key.awbNo,
         outcome |-> "pending", status |-> "", waits |-> history[j].waits])]
  /\ clients' = forEachSend(clients)
  /\ loop' = [loop EXCEPT ![j].processedCount = processedCount,
                          ![j].pc = "lookup"]
  /\ running' = 0
  /\ UNCHANGED trackJobs

\* Variant of NextRow: when the records are exhausted the loop goes on to
\* the complete message without storing completed first.
NextRowCompletesUnwritten(j) ==
  /\ running = j
  /\ loop[j].pc = "row"
  /\ IF loop[j].processedCount = Len(loop[j].file.rows)
     THEN /\ loop' = [loop EXCEPT ![j].pc = "complete"]
          /\ UNCHANGED <<trackJobs, events, lookups, clients, running>>
     ELSE LET processedCount == loop[j].processedCount + 1
              mawb == loop[j].file.rows[processedCount]
              key == splitMAWB(mawb)
          IN IF key.prefix = <<>> \/ key.awbNo = <<>>
             THEN SkipRow(j, processedCount, mawb)
             ELSE StartLookup(j, processedCount, mawb, key)
  /\ UNCHANGED <<trackResults, createdBy, controls, notFound, splitCall, dashboard, badRequests, history>>

\* Head of the for loop: leave it when the records are exhausted, else take
\* the next record, split its MAWB and either skip it or call trackAWB.
NextRow(j) ==
  /\ running = j
  /\ loop[j].pc = "row"
  /\ IF loop[j].processedCount = Len(loop[j].file.rows)
     THEN /\ trackJobs' = updateTrackJobStatus(trackJobs, j, "completed")
          /\ loop' = [loop EXCEPT ![j].pc = "complete"]
          /\ UNCHANGED <<events, lookups, clients, running>>
     ELSE LET processedCount == loop[j].processedCount + 1
              mawb == loop[j].file.rows[processedCount]
              key == splitMAWB(mawb)
          IN IF key.prefix = <<>> \/ key.awbNo = <<>>
             THEN SkipRow(j, processedCount, mawb)
             ELSE StartLookup(j, processedCount, mawb, key)
  /\ UNCHANGED <<trackResults, createdBy, controls, notFound, splitCall, dashboard, badRequests, history>>

\* const trackResult: InsertTrackResult = {mawb, prefix, awbNo, status: result.status || '', ...}
InsertTrackResult(mawb, result) ==
  LET key == splitMAWB(mawb) IN
  [mawb |-> mawb, prefix |-> key.prefix, awbNo |-> key.awbNo,
   status |-> result.status]

\* Variant of OnLookupOk: the reply of a lookup that settles while the job
\* is paused is dropped instead of stored.
OnLookupOkDropsWhenPaused(j, reply) ==
  LET processedCount == loop[j].processedCount
      mawb == loop[j].file.rows[processedCount]
      trackResult == InsertTrackResult(mawb, reply)
  IN IF trackJobs[j].status = "paused"
     THEN /\ loop' = [loop EXCEPT ![j].pc = "progress"]
          /\ running' = j
          /\ UNCHANGED <<trackJobs, trackResults, createdBy, events, clients>>
     ELSE /\ trackResults' = createTrackResult(trackResults, trackResult)
          /\ createdBy' = Append(createdBy, [job |-> j, row |-> processedCount])
          /\ loop' = [loop EXCEPT ![j].pc = "saved", ![j].trackResult = trackResult]
          /\ running' = j
          /\ UNCHANGED <<trackJobs, events, clients>>

\* Variant of OnLookupOk: the result message is sent before the result is
\* stored.
OnLookupOkEmitsFirst(j, reply) ==
  LET processedCount == loop[j].processedCount
      mawb == loop[j].file.rows[processedCount]
      trackResult == InsertTrackResult(mawb, reply)
  IN /\ events' = broadcastMessage(events, j,
           [type |-> "result", data |-> trackResult])
     /\ clients' = forEachSend(clients)
     /\ loop' = [loop EXCEPT ![j].pc = "progress"]
     /\ running' = j
     /\ UNCHANGED <<trackJobs, trackResults, createdBy>>

\* trackAWB returned: the result is built and stored.
OnLookupOk(j, reply) ==
  LET processedCount == loop[j].processedCount
      mawb == loop[j].file.rows[processedCount]
      trackResult == InsertTrackResult(mawb, reply)
  IN /\ trackResults' = createTrackResult(trackResults, trackResult)
     /\ createdBy' = Append(createdBy, [job |-> j, row |-> processedCount])
     /\ loop' = [loop EXCEPT ![j].pc = "saved", ![j].trackResult = trackResult]
     /\ running' = j
     /\ UNCHANGED <<trackJobs, events, clients>>

\* Variant of OnLookupError: the error escapes the row and fails the job.
OnLookupErrorFailsJob(j) ==
  /\ trackJobs' = updateTrackJobStatus(trackJobs, j, "failed")
  /\ loop' = [loop EXCEPT ![j].pc = "done"]
  /\ running' = 0
  /\ UNCHANGED <<trackResults, createdBy, events, clients>>

\* trackAWB threw: the row's catch block logs the error and the loop goes on.
OnLookupError(j) ==
  LET processedCount == loop[j].processedCount
      mawb == loop[j].file.rows[processedCount]
  IN /\ events' = broadcastMessage(events, j,
           [type |-> "log", level |-> "error",
            row |-> processedCount, mawb |-> mawb])
     /\ clients' = forEachSend(clients)
     /\ loop' = [loop EXCEPT ![j].pc = "progress"]
     /\ running' = j
     /\ UNCHANGED <<trackJobs, trackResults, createdBy>>

\* The lookup call in flight settles.
LookupReturn(j, reply) ==
  /\ running = 0
  /\ loop[j].pc = "lookup"
  /\ lookups' = [lookups EXCEPT ![j][Len(lookups[j])] =
                    [@ EXCEPT !.outcome = IF reply.ok THEN "ok" ELSE "error",
                              !.status = reply.status]]
  /\ IF reply.ok THEN OnLookupOk(j, reply) ELSE OnLookupError(j)
  /\ UNCHANGED <<controls, notFound, splitCall, dashboard, badRequests, history>>

\* After the result is stored: the success log, then the result message.
EmitResult(j) ==
  /\ running = j
  /\ loop[j].pc = "saved"
  /\ LET processedCount == loop[j].processedCount
         mawb == loop[j].file.rows[processedCount]
     IN events' = broadcastMessage(
                    broadcastMessage(events, j,
                      [type |-> "log", level |-> "success",
                       row |-> processedCount, mawb |-> mawb]),
                    j, [type |-> "result", data |-> loop[j].trackResult])
  /\ clients' = forEachSend(forEachSend(clients))
  /\ loop' = [loop EXCEPT ![j].pc = "progress", ![j].trackResult = NoResult]
  /\ UNCHANGED <<trackJobs, trackResults, createdBy, lookups, controls, notFound, splitCall, dashboard, badRequests, history, running>>

\* storage.updateTrackJobProgress(jobId, processedCount)
UpdateProgress(j) ==
  /\ running = j
  /\ loop[j].pc = "progress"
  /\ trackJobs' = updateTrackJobProgress(trackJobs, j, loop[j].processedCount)
  /\ loop' = [loop EXCEPT ![j].pc = "emitProgress"]
  /\ UNCHANGED <<trackResults, createdBy, events, lookups, controls, notFound, splitCall, dashboard, badRequests, clients, history, running>>

\* Variant of EmitProgress: after the progress message the loop goes to its
\* next record at once, without the pacing wait.
EmitProgressNoWait(j) ==
  /\ running = j
  /\ loop[j].pc = "emitProgress"
  /\ events' = broadcastMessage(events, j,
        [type |-> "progress", current |-> loop[j].processedCount,
         total |-> loop[j].totalCount])
  /\ clients' = forEachSend(clients)
  /\ loop' = [loop EXCEPT ![j].pc = "row"]
  /\ UNCHANGED <<trackJobs, trackResults, createdBy, lookups, controls, notFound, splitCall, dashboard, badRequests, history, running>>

\* The progress message, then the pacing timer is set.
EmitProgress(j) ==
  /\ running = j
  /\ loop[j].pc = "emitProgress"
  /\ events' = broadcastMessage(events, j,
        [type |-> "progress", current |-> loop[j].processedCount,
         total |-> loop[j].totalCount])
  /\ clients' = forEachSend(clients)
  /\ loop' = [loop EXCEPT ![j].pc = "delay"]
  /\ running' = 0
  /\ UNCHANGED <<trackJobs, trackResults, createdBy, lookups, controls, notFound, splitCall, dashboard, badRequests, history>>

\* Variant of TimerFires: the loop leaves the pacing wait only while the
\* job's stored status is not paused.
TimerFiresUnlessPaused(j) ==
  /\ running = 0
  /\ loop[j].pc = "delay"
  /\ trackJobs[j].status # "paused"
  /\ loop' = [loop EXCEPT ![j].pc = "row"]
  /\ history' = [history EXCEPT ![j].waits = @ + 1]
  /\ running' = j
  /\ UNCHANGED <<trackJobs, trackResults, createdBy, events, lookups, controls, notFound, splitCall, dashboard, badRequests, clients>>

\* The pacing timer fires and the loop goes to its next record.
TimerFires(j) ==
  /\ running = 0
  /\ loop[j].pc = "delay"
  /\ loop' = [loop EXCEPT ![j].pc = "row"]
  /\ history' = [history EXCEPT ![j].waits = @ + 1]
  /\ running' = j
  /\ UNCHANGED <<trackJobs, trackResults, createdBy, events, lookups, controls, notFound, splitCall, dashboard, badRequests, clients>>

\* After completed is stored: the complete message.
Complete(j) ==
  /\ running = j
  /\ loop[j].pc = "complete"
  /\ events' = broadcastMessage(events, j,
        [type |-> "complete", processed |-> loop[j].processedCount])
  /\ clients' = forEachSend(clients)
  /\ loop' = [loop EXCEPT ![j].pc = "done"]
  /\ running' = 0
  /\ UNCHANGED <<trackJobs, trackResults, createdBy, lookups, controls, notFound, splitCall, dashboard, badRequests, history>>

(* ------------------------------ viewers -------------------------------- *)
\* A viewer connects to /ws: the server adds an open client to wss.clients.
Connect ==
  /\ running = 0
  /\ Len(clients) < MaxViewers
  /\ clients' = Append(clients,
                       [readyState |-> "OPEN", received |-> 0, failures |-> 0])
  /\ UNCHANGED <<trackJobs, trackResults, createdBy, loop, events, lookups,
                 controls, notFound, splitCall, dashboard, badRequests, history, running>>

\* A viewer's connection starts to close: its client is no longer OPEN.
Close(c) ==
  /\ running = 0
  /\ clients[c].readyState = "OPEN"
  /\ clients' = [clients EXCEPT ![c].readyState = "CLOSING"]
  /\ UNCHANGED <<trackJobs, trackResults, createdBy, loop, events, lookups,
                 controls, notFound, splitCall, dashboard, badRequests, history, running>>

OpenClients == {c \in DOMAIN clients : clients[c].readyState = "OPEN"}

(* ------------- processCSVFile when a client.send call throws ----------- *)
\* broadcastMessage has no try/catch, so an exception of client.send leaves
\* it and is caught where the call site stands: by the row's catch block
\* inside the row's try, by the function's catch block elsewhere.

\* The function's catch block: failed is stored and the error rethrown.
OuterCatch(j, processedCount) ==
  /\ trackJobs' = updateTrackJobStatus(trackJobs, j, "failed")
  /\ loop' = [loop EXCEPT ![j].pc = "rethrown",
                          ![j].processedCount = processedCount]
  /\ running' = j

\* The row's catch block: it sends the error log (which may throw in turn,
\* at the same client) and the loop goes on to the progress update.
RowCatch(j, c, served, processedCount, again) ==
  IF again
  THEN /\ clients' = forEachSendThrowsAt(served, c)
       /\ OuterCatch(j, processedCount)
       /\ UNCHANGED events
  ELSE /\ clients' = forEachSend(served)
       /\ events' = broadcastMessage(events, j,
             [type |-> "log", level |-> "error", row |-> processedCount,
              mawb |-> loop[j].file.rows[processedCount]])
       /\ loop' = [loop EXCEPT ![j].pc = "progress",
                               ![j].processedCount = processedCount,
                               ![j].trackResult = NoResult]
       /\ running' = j
       /\ UNCHANGED trackJobs

\* The send of the warning of a rejected row, or of the info log of an
\* accepted row, throws: the first is outside the row's try, the second
\* inside (the lookup is then not made).
RowSendThrows(j, c, again) ==
  /\ running = j
  /\ loop[j].pc = "row"
  /\ loop[j].processedCount < Len(loop[j].file.rows)
  /\ c \in OpenClients
  /\ LET processedCount == loop[j].processedCount + 1
         served == forEachSendThrowsAt(clients, c)
     IN IF Rejected(loop[j].file.rows[processedCount])
        THEN /\ ~again
             /\ clients' = served
             /\ OuterCatch(j, processedCount)
             /\ UNCHANGED events
        ELSE RowCatch(j, c, served, processedCount, again)
  /\ UNCHANGED <<trackResults, createdBy, lookups, controls, notFound, splitCall, dashboard,
                 badRequests, history>>

\* The send of the success log throws, after the result was stored.
ResultSendThrows(j, c, again) ==
  /\ running = j
  /\ loop[j].pc = "saved"
  /\ c \in OpenClients
  /\ RowCatch(j, c, forEachSendThrowsAt(clients, c), loop[j].processedCount, again)
  /\ UNCHANGED <<trackResults, createdBy, lookups, controls, notFound, splitCall, dashboard,
                 badRequests, history>>

\* trackAWB threw and the send of the row's error log throws.
ErrorLogSendThrows(j, c) ==
  /\ running = 0
  /\ loop[j].pc = "lookup"
  /\ c \in OpenClients
  /\ lookups' = [lookups EXCEPT ![j][Len(lookups[j])].outcome = "error"]
  /\ clients' = forEachSendThrowsAt(clients, c)
  /\ OuterCatch(j, loop[j].processedCount)
  /\ UNCHANGED <<trackResults, createdBy, events, controls, notFound, splitCall, dashboard,
                 badRequests, history>>

\* The send of the progress message or of the complete message throws.
ProgressSendThrows(j, c) ==
  /\ running = j
  /\ loop[j].pc \in {"emitProgress", "complete"}
  /\ c \in OpenClients
  /\ clients' = forEachSendThrowsAt(clients, c)
  /\ OuterCatch(j, loop[j].processedCount)
  /\ UNCHANGED <<trackResults, createdBy, events, lookups, controls, notFound, splitCall, dashboard,
                 badRequests, history>>

(* ------------------- POST /api/track/jobs/:id/control ------------------ *)
NewStatus(action) ==
  CASE action = "pause" -> "paused"
    [] action = "resume" -> "processing"
    [] action = "cancel" -> "cancelled"

\* Variant of Control: a resume that arrives during the pacing wait sends
\* the loop back to the first row.
ControlResumeRewinds(j, action) ==
  /\ running = 0
  /\ controls < MaxControls
  /\ trackJobs' = updateTrackJobStatus(trackJobs, j, NewStatus(action))
  /\ controls' = controls + 1
  /\ history' = [history EXCEPT
        ![j].cancelAt = IF /\ action = "cancel"
                           /\ trackJobs[j].status \in {"processing", "paused"}
                           /\ loop[j].pc # "done"
                           /\ @ = -1
                        THEN loop[j].processedCount ELSE @,
        ![j].resumed = @ \/ /\ action = "resume"
                             /\ trackJobs[j].status = "paused"
                             /\ loop[j].pc # "done"]
  /\ loop' = IF action = "resume" /\ loop[j].pc = "delay"
             THEN [loop EXCEPT ![j].processedCount = 0]
             ELSE loop
  /\ UNCHANGED <<trackResults, createdBy, events, lookups, notFound, splitCall, dashboard, badRequests, clients, running>>

\* The handler for a job the store holds: the action's status is written.
Control(j, action) ==
  /\ running = 0
  /\ controls < MaxControls
  /\ trackJobs' = updateTrackJobStatus(trackJobs, j, NewStatus(action))
  /\ controls' = controls + 1
  /\ history' = [history EXCEPT
        ![j].cancelAt = IF /\ action = "cancel"
                           /\ trackJobs[j].status \in {"processing", "paused"}
                           /\ loop[j].pc # "done"
                           /\ @ = -1
                        THEN loop[j].processedCount ELSE @,
        ![j].resumed = @ \/ /\ action = "resume"
                             /\ trackJobs[j].status = "paused"
                             /\ loop[j].pc # "done"]
  /\ UNCHANGED <<trackResults, createdBy, loop, events, lookups, notFound, splitCall, dashboard, badRequests, clients, running>>

\* Variant of ControlUnknown: the status is written for the unknown id as
\* well, which creates a job record.
ControlUnknownCreates(id) ==
  /\ running = 0
  /\ controls < MaxControls
  /\ id = Len(trackJobs) + 1
  /\ controls' = controls + 1
  /\ notFound' = notFound
  /\ trackJobs' = Append(trackJobs,
        [status |-> "paused", totalCount |-> 0, processedCount |-> 0])
  /\ loop' = Append(loop, [pc |-> "done", file |-> [parse |-> "throws",
        mawbColumn |-> FALSE, rows |-> <<>>], delay |-> DefaultDelay,
        processedCount |-> 0,
        totalCount |-> 0, trackResult |-> NoResult])
  /\ events' = Append(events, <<>>)
  /\ lookups' = Append(lookups, <<>>)
  /\ history' = Append(history,
        [cancelAt |-> -1, resumed |-> FALSE, waits |-> 0, storeFailed |-> -1,
         returned |-> [job |-> trackJobs'[Len(trackJobs) + 1], visited |-> 0]])
  /\ UNCHANGED <<trackResults, createdBy, badRequests, clients, splitCall, dashboard, running>>

\* The same route for an id the store does not hold: getTrackJob gives
\* undefined and the handler answers 404 before any write.
ControlUnknown(id) ==
  /\ running = 0
  /\ controls < MaxControls
  /\ id \notin JobIds
  /\ controls' = controls + 1
  /\ notFound' = notFound + 1
  /\ UNCHANGED <<trackJobs, trackResults, createdBy, loop, events, lookups,
                 history, badRequests, clients, splitCall, dashboard, running>>

(* ------------------------------- Next ---------------------------------- *)
Next ==
  \/ \E file \in Files, body \in Bodies : Upload(file, body)
  \/ \E j \in JobIds : StartProcessing(j)
  \/ \E j \in JobIds : RouteCatch(j)
  \/ \E j \in JobIds : NextRow(j)
  \/ \E j \in JobIds, reply \in Replies : LookupReturn(j, reply)
  \/ \E j \in JobIds : EmitResult(j)
  \/ \E j \in JobIds : UpdateProgress(j)
  \/ \E j \in JobIds : EmitProgress(j)
  \/ \E j \in JobIds : TimerFires(j)
  \/ \E j \in JobIds : Complete(j)
  \/ \E j \in JobIds, action \in {"pause", "resume", "cancel"} : Control(j, action)

Spec == Init /\ [][Next]_vars

\* The engine together with control requests that name an id the store
\* does not hold.
NextControl ==
  \/ Next
  \/ \E id \in 1..(MaxJobs + 1) : ControlUnknown(id)

SpecControl == Init /\ [][NextControl]_vars

\* The engine with upload requests of every kind: with and without a file
\* part, with and without a delay field.
NextUpload ==
  \/ Next
  \/ \E file \in Files \cup {NoFile}, body \in BodiesWithDelay : Upload(file, body)

SpecUpload == Init /\ [][NextUpload]_vars

\* The engine with viewers that connect and close, and whose sends may
\* throw.
NextViewers ==
  \/ Next
  \/ Connect
  \/ \E c \in DOMAIN clients : Close(c)
  \/ \E j \in JobIds, c \in DOMAIN clients, again \in BOOLEAN : RowSendThrows(j, c, again)
  \/ \E j \in JobIds, c \in DOMAIN clients, again \in BOOLEAN : ResultSendThrows(j, c, again)
  \/ \E j \in JobIds, c \in DOMAIN clients : ErrorLogSendThrows(j, c)
  \/ \E j \in JobIds, c \in DOMAIN clients : ProgressSendThrows(j, c)

SpecViewers == Init /\ [][NextViewers]_vars

(* -------------- processCSVFile when a store write fails ---------------- *)
\* trackAWB returned and `await storage.createTrackResult(trackResult)`
\* rejects: the call stands inside the row's try, so the row's catch block
\* logs the error and the loop goes on to the progress update.
ResultWriteThrows(j, reply) ==
  /\ running = 0
  /\ loop[j].pc = "lookup"
  /\ reply.ok
  /\ lookups' = [lookups EXCEPT ![j][Len(lookups[j])] =
                    [@ EXCEPT !.outcome = "ok", !.status = reply.status]]
  /\ events' = broadcastMessage(events, j,
        [type |-> "log", level |-> "error", row |-> loop[j].processedCount,
         mawb |-> loop[j].file.rows[loop[j].processedCount]])
  /\ clients' = forEachSend(clients)
  /\ loop' = [loop EXCEPT ![j].pc = "progress"]
  /\ running' = j
  /\ history' = [history EXCEPT
        ![j].storeFailed = IF @ = -1 THEN loop[j].processedCount ELSE @]
  /\ UNCHANGED <<trackJobs, trackResults, createdBy, controls, notFound,
                 splitCall, dashboard, badRequests>>

\* `await storage.updateTrackJobProgress(jobId, processedCount)` rejects:
\* the call stands outside the row's try, so the function's catch block
\* stores failed (a write that goes through) and rethrows.
ProgressWriteThrows(j) ==
  /\ running = j
  /\ loop[j].pc = "progress"
  /\ OuterCatch(j, loop[j].processedCount)
  /\ history' = [history EXCEPT
        ![j].storeFailed = IF @ = -1 THEN loop[j].processedCount ELSE @]
  /\ UNCHANGED <<trackResults, createdBy, events, lookups, controls, notFound,
                 splitCall, dashboard, badRequests, clients>>

\* The engine with a store whose writes of results and of the processed
\* count may fail.
NextStore ==
  \/ Next
  \/ \E j \in JobIds, reply \in Replies : ResultWriteThrows(j, reply)
  \/ \E j \in JobIds : ProgressWriteThrows(j)

SpecStore == Init /\ [][NextStore]_vars

(* ------------------- one job over a longer file ------------------------ *)
\* trackAWB returns with every field empty: the page held none of them.
NoFields == [ok |-> TRUE, status |-> ""]

\* Files that parse, have an identifier column and at least one row, up to
\* one row more than an upload of the default specification holds.
LongFiles ==
  {[parse |-> "ok", mawbColumn |-> TRUE, rows |-> r] :
     r \in SeqsUpTo(Identifiers, MaxRows + 1) \ {<<>>}}

\* The upload handler has answered for such a file: the job is created and
\* its processing function stands at its first await.
InitLong ==
  /\ trackJobs = createTrackJob(<<>>)
  /\ \E file \in LongFiles :
       loop = <<[pc |-> "start", file |-> file, delay |-> DefaultDelay,
                 processedCount |-> 0, totalCount |-> 0,
                 trackResult |-> NoResult]>>
  /\ history = <<[cancelAt |-> -1, resumed |-> FALSE, waits |-> 0, storeFailed |-> -1,
                  returned |-> [job |-> Head(createTrackJob(<<>>)),
                                visited |-> 0]]>>
  /\ events = << <<>> >>
  /\ lookups = << <<>> >>
  /\ trackResults = <<>>
  /\ createdBy = <<>>
  /\ controls = 0
  /\ notFound = 0
  /\ badRequests = <<>>
  /\ clients = <<>>
  /\ dashboard = NewDashboard
  /\ splitCall = NoCall
  /\ running = Len(createTrackJob(<<>>))

\* A step of job j's processing function.
LoopStep(j) ==
  \/ StartProcessing(j)
  \/ NextRow(j)
  \/ \E reply \in Replies \cup {NoFields} : LookupReturn(j, reply)
  \/ EmitResult(j)
  \/ UpdateProgress(j)
  \/ EmitProgress(j)
  \/ TimerFires(j)
  \/ Complete(j)

NextLong ==
  \/ \E j \in JobIds : LoopStep(j)
  \/ \E j \in JobIds, action \in {"pause", "resume", "cancel"} : Control(j, action)

SpecLong == InitLong /\ [][NextLong]_vars

\* The same when the event loop is fair to the processing function: a
\* continuation that is ready runs, a pending lookup settles and a pacing
\* timer that was set fires.
FairLong == SpecLong /\ \A j \in {Len(createTrackJob(<<>>))} : WF_vars(LoopStep(j))

(* --------------------- the engine and one viewer ----------------------- *)
\* messageWithJobId: the n-th message broadcast for job j, as sent
MessageWithJobId(j, n) == [jobId |-> j, body |-> events[j][n]]

\* The next message of job j reaches the page and its handler runs.
OnMessage(j) ==
  /\ dashboard.seen[j] < Len(events[j])
  /\ Len(dashboard.logs) + Len(dashboard.results) < MaxMessages
  /\ dashboard' =
       [onmessage(dashboard, MessageWithJobId(j, dashboard.seen[j] + 1))
          EXCEPT !.seen[j] = @ + 1]
  /\ UNCHANGED <<trackJobs, trackResults, createdBy, loop, events, lookups,
                 controls, notFound, splitCall, badRequests, clients, history,
                 running>>

\* handleFileSelected: the lists are emptied and no job is active.
FileSelected ==
  /\ dashboard' = [dashboard EXCEPT !.results = <<>>, !.logs = <<>>,
                                    !.progress = [current |-> 0, total |-> 0],
                                    !.jobStatus = "pending",
                                    !.activeJobId = NoJob]
  /\ UNCHANGED <<trackJobs, trackResults, createdBy, loop, events, lookups,
                 controls, notFound, splitCall, badRequests, clients, history,
                 running>>

\* uploadMutation.onSuccess: the answer to the upload that created job j
\* arrives, and j becomes the active job.
UploadSucceeded(j) ==
  /\ dashboard.activeJobId # j
  /\ dashboard' = [dashboard EXCEPT !.activeJobId = j,
                                    !.jobStatus = "processing"]
  /\ UNCHANGED <<trackJobs, trackResults, createdBy, loop, events, lookups,
                 controls, notFound, splitCall, badRequests, clients, history,
                 running>>

NextDashboard ==
  \/ \E file \in Files, body \in Bodies : Upload(file, body)
  \/ \E j \in JobIds : RouteCatch(j)
  \/ \E j \in JobIds : LoopStep(j)
  \/ \E j \in JobIds : OnMessage(j)
  \/ FileSelected
  \/ \E j \in JobIds : UploadSucceeded(j)

SpecDashboard == Init /\ [][NextDashboard]_vars

(* ======================= properties of the engine ====================== *)
\* The splitter's result for each identifier a file of the engine holds,
\* and the identifiers among them that the loop rejects
KeyOf == [m \in Identifiers |-> splitMAWB(m)]

RejectedIdentifiers == {m \in Identifiers : Rejected(m)}

RECURSIVE ResultsFrom(_, _)
ResultsFrom(j, i) ==
  IF i > Len(trackResults) THEN <<>>
  ELSE (IF createdBy[i].job = j THEN <<trackResults[i]>> ELSE <<>>)
       \o ResultsFrom(j, i + 1)

\* The results job j's loop created, in insertion order
ResultsOf(j) == ResultsFrom(j, 1)

\* A stored result without its store-assigned id
Payload(r) ==
  [mawb |-> r.mawb, prefix |-> r.prefix, awbNo |-> r.awbNo, status |-> r.status]

IsResultEvent(e) == e.type = "result"

ResultEvents(j) == SelectSeq(events[j], IsResultEvent)

\* The events of job j that a step adds
NewEvents(j) ==
  {events'[j][i] : i \in (Len(events[j]) + 1)..Len(events'[j])}

\* C1: once a job's stored status is completed, failed or cancelled, no
\* control action and no step of the loop changes it, and the loop visits
\* no further row of the job.
C1_TerminalIsFinal ==
  [][\A j \in JobIds :
       trackJobs[j].status \in Terminal =>
         /\ trackJobs'[j].status = trackJobs[j].status
         /\ loop'[j].processedCount = loop[j].processedCount]_vars

\* C2: after a cancel is applied to a processing or paused job (with K rows
\* visited, the row in flight included), no lookup is started for a row
\* after K and the job's final stored status is cancelled.
C2_CancelStopsLoop ==
  \A j \in JobIds :
    history[j].cancelAt # -1 =>
      /\ \A i \in 1..Len(lookups[j]) : lookups[j][i].row <= history[j].cancelAt
      /\ loop[j].pc = "done" => trackJobs[j].status = "cancelled"

\* C3: while a job's stored status is paused the loop starts no new row and
\* makes no new lookup call (the call in flight may still settle).
C3_PausedStartsNoRow ==
  [][\A j \in JobIds :
       trackJobs[j].status = "paused" =>
         /\ Len(lookups'[j]) = Len(lookups[j])
         /\ loop'[j].processedCount = loop[j].processedCount]_vars

\* What a run of the loop over rows[from..] that is never paused persists,
\* given the reply of the lookup made for each accepted row.
RECURSIVE UnpausedRun(_, _, _)
UnpausedRun(rows, calls, from) ==
  IF from > Len(rows) THEN <<>>
  ELSE LET key == KeyOf[rows[from]] IN
       IF key.prefix = <<>> \/ key.awbNo = <<>>
       THEN UnpausedRun(rows, calls, from + 1)
       ELSE (IF Head(calls).outcome = "ok"
             THEN <<[mawb |-> rows[from], prefix |-> key.prefix,
                     awbNo |-> key.awbNo, status |-> Head(calls).status]>>
             ELSE <<>>)
            \o UnpausedRun(rows, Tail(calls), from + 1)

RECURSIVE MapPayload(_)
MapPayload(rs) ==
  IF rs = <<>> THEN <<>> ELSE <<Payload(Head(rs))>> \o MapPayload(Tail(rs))

Accepted(rows) == {k \in 1..Len(rows) : rows[k] \notin RejectedIdentifiers}

\* C4: when a job's loop has ended, whatever pause and resume actions were
\* applied meanwhile, the results persisted for the job are, in order,
\* those of the unpaused run over the same rows with the same lookup
\* outcomes.
C4_PauseResumeSameResults ==
  \A j \in JobIds :
    (loop[j].pc = "done" /\ ~Throws(loop[j].file)) =>
      /\ Len(lookups[j]) = Cardinality(Accepted(loop[j].file.rows))
      /\ MapPayload(ResultsOf(j)) = UnpausedRun(loop[j].file.rows, lookups[j], 1)

\* C4 witness: a two-row job that was paused and resumed before its loop
\* ended, and ended with both results.
C4_Witness ==
  \E j \in JobIds :
    /\ loop[j].pc = "done"
    /\ history[j].resumed
    /\ Len(ResultsOf(j)) = 2

\* C5: a lookup failure on row K never moves the job to failed and never
\* stops the loop: an error log is emitted for row K, no result is created
\* for row K, and the loop ends only after every row has been visited.
C5_LookupFailureIsLocal ==
  \A j \in JobIds :
    \A i \in 1..Len(lookups[j]) :
      lookups[j][i].outcome = "error" =>
        LET K == lookups[j][i].row IN
        /\ trackJobs[j].status # "failed"
        /\ \E e \in {events[j][n] : n \in 1..Len(events[j])} :
             e.type = "log" /\ e.level = "error" /\ e.row = K
        /\ ~\E n \in 1..Len(createdBy) : createdBy[n] = [job |-> j, row |-> K]
        /\ loop[j].pc \in {"complete", "done"} =>
             loop[j].processedCount = Len(loop[j].file.rows)

\* C5 witness: the lookup for row 1 failed and the lookup for row 2 was made.
C5_Witness ==
  \E j \in JobIds :
    /\ Len(lookups[j]) = 2
    /\ lookups[j][1].row = 1 /\ lookups[j][1].outcome = "error"
    /\ lookups[j][2].row = 2

\* C6: whenever the loop stands between rows or has ended, the processed
\* count stored for the job is the number of rows the loop has visited,
\* rejected rows included.
C6_ProcessedCountIsVisited ==
  \A j \in JobIds :
    (loop[j].pc \in {"row", "delay", "complete", "done"} /\ ~Throws(loop[j].file)) =>
      trackJobs[j].processedCount = loop[j].processedCount

\* C7: once a job's stored status is completed, failed or cancelled, no
\* progress event and no result event is emitted for it.
C7_NoProgressAfterTerminal ==
  [][\A j \in JobIds :
       trackJobs[j].status \in Terminal =>
         \A e \in NewEvents(j) : e.type \notin {"progress", "result"}]_vars

\* C8: when a job was cancelled with K rows visited, its stored processed
\* count is K once its loop has ended, and its complete event reports K.
C8_CancelReportsPartialCount ==
  \A j \in JobIds :
    history[j].cancelAt # -1 =>
      /\ loop[j].pc = "done" => trackJobs[j].processedCount = history[j].cancelAt
      /\ \A n \in 1..Len(events[j]) :
           events[j][n].type = "complete" =>
             events[j][n].processed = history[j].cancelAt

\* C9: the result query for a job returns exactly the results that job's
\* loop created, in insertion order.
C9_ResultsFilteredByJob ==
  \A b \in JobIds : getTrackResultsByJob(b) = ResultsOf(b)

\* C10: every result event emitted for a job has its result stored already:
\* the job's k-th result event carries the job's k-th stored result.
C10_ResultStoredBeforeEvent ==
  \A j \in JobIds :
    LET sent == ResultEvents(j)
        stored == ResultsOf(j)
    IN /\ Len(sent) <= Len(stored)
       /\ \A k \in 1..Len(sent) : sent[k].data = Payload(stored[k])

\* C10 witness: a result is stored and its event is not yet emitted.
C10_Witness ==
  \E j \in JobIds :
    /\ loop[j].pc = "saved"
    /\ Len(ResultsOf(j)) = Len(ResultEvents(j)) + 1

IsWarnLog(e) == e.type = "log" /\ e.level = "warn"

WarnLogs(j) == SelectSeq(events[j], IsWarnLog)

\* C11: a job run without control actions in which every lookup succeeded
\* ends with one result per accepted row, one warn log per rejected row,
\* the stored processed count at the number of rows and status completed.
C11_CleanRunCounts ==
  \A j \in JobIds :
    (/\ loop[j].pc = "done"
     /\ ~Throws(loop[j].file)
     /\ controls = 0
     /\ \A i \in 1..Len(lookups[j]) : lookups[j][i].outcome = "ok") =>
      LET rows == loop[j].file.rows IN
      /\ Len(ResultsOf(j)) = Cardinality(Accepted(rows))
      /\ Len(WarnLogs(j)) = Len(rows) - Cardinality(Accepted(rows))
      /\ trackJobs[j].processedCount = Len(rows)
      /\ trackJobs[j].status = "completed"

\* C12: for every visited row whose identifier the splitter rejects, the
\* loop has emitted exactly one warn log for that row, made no lookup call
\* for it and created no result for it.
C12_RejectedRowSkipped ==
  \A j \in JobIds :
    \A k \in 1..loop[j].processedCount :
      loop[j].file.rows[k] \in RejectedIdentifiers =>
        /\ Cardinality({n \in 1..Len(events[j]) :
                          IsWarnLog(events[j][n]) /\ events[j][n].row = k}) = 1
        /\ \A i \in 1..Len(lookups[j]) : lookups[j][i].row # k
        /\ \A n \in 1..Len(createdBy) : createdBy[n] # [job |-> j, row |-> k]

\* C12 witness: a rejected row was visited and a later row was looked up.
C12_Witness ==
  \E j \in JobIds :
    /\ loop[j].processedCount = 2
    /\ loop[j].file.rows[1] \in RejectedIdentifiers
    /\ Len(lookups[j]) = 1

\* C13: a pause applied to a job that is not processing, or a resume
\* applied to a job that is not paused, leaves the job record unchanged: a
\* control step leaves a job paused only if it was processing or already
\* paused, and processing only if it was paused or already processing.
C13_InvalidControlIsNoOp ==
  [][\A j \in JobIds :
       controls' # controls =>
         /\ (trackJobs'[j].status = "paused" /\ trackJobs[j].status # "processing")
              => trackJobs'[j] = trackJobs[j]
         /\ (trackJobs'[j].status = "processing" /\ trackJobs[j].status # "paused")
              => trackJobs'[j] = trackJobs[j]]_vars

AllowedTransitions ==
  {<<"pending", "processing">>, <<"processing", "paused">>,
   <<"paused", "processing">>, <<"processing", "cancelled">>,
   <<"paused", "cancelled">>, <<"processing", "completed">>,
   <<"processing", "failed">>}

\* C15: every change of a job's stored status is pending to processing,
\* processing to paused, paused to processing, processing or paused to
\* cancelled, processing to completed or processing to failed.
C15_OnlyAllowedTransitions ==
  [][\A j \in JobIds :
       trackJobs'[j].status # trackJobs[j].status =>
         <<trackJobs[j].status, trackJobs'[j].status>> \in AllowedTransitions]_vars

\* C16: for a file that cannot be parsed or has no identifier column, no
\* lookup call is made, no result is created, the job is never completed,
\* and once its processing has ended its stored status is failed.
C16_BadFileFails ==
  \A j \in JobIds :
    Throws(loop[j].file) =>
      /\ lookups[j] = <<>>
      /\ ResultsOf(j) = <<>>
      /\ trackJobs[j].status # "completed"
      /\ loop[j].pc = "done" => trackJobs[j].status = "failed"

\* C17: when a job has been failed because of an engine-level error and
\* its processing has ended, an error-level log event of that job has been
\* emitted.
C17_FailureIsLogged ==
  \A j \in JobIds :
    (Throws(loop[j].file) /\ loop[j].pc = "done") =>
      \E n \in 1..Len(events[j]) :
        events[j][n].type = "log" /\ events[j][n].level = "error"

\* C18: once the job has entered processing, the processed count of its
\* job record is at most the record's total count.
C18_ProcessedAtMostTotal ==
  \A j \in JobIds :
    (~Throws(loop[j].file) /\ loop[j].pc # "start") =>
      trackJobs[j].processedCount <= trackJobs[j].totalCount

\* C19: the processed count stored for a job never decreases, whatever
\* control actions interleave with the loop's progress updates.
C19_ProcessedCountMonotonic ==
  [][\A j \in JobIds :
       trackJobs'[j].processedCount >= trackJobs[j].processedCount]_vars

\* C19 witness: a job with a stored count of 1 was paused and resumed.
C19_Witness ==
  \E j \in JobIds :
    /\ history[j].resumed
    /\ trackJobs[j].processedCount = 1

\* C20: a control action's status write and the loop's progress write on
\* the same job both survive: the status write leaves the counts as they
\* are, and the progress write leaves the status as it is.
C20_NoLostUpdate ==
  [][\A j \in JobIds :
       /\ controls' # controls =>
            /\ trackJobs'[j].processedCount = trackJobs[j].processedCount
            /\ trackJobs'[j].totalCount = trackJobs[j].totalCount
       /\ trackJobs'[j].processedCount # trackJobs[j].processedCount =>
            trackJobs'[j].status = trackJobs[j].status]_vars

\* C20 witness: a job cancelled while the lookup of its row was in flight
\* has that row's progress stored, and is still cancelled.
C20_Witness ==
  \E j \in JobIds :
    /\ loop[j].pc = "emitProgress"
    /\ history[j].cancelAt = loop[j].processedCount
    /\ trackJobs[j].processedCount = loop[j].processedCount
    /\ trackJobs[j].status = "cancelled"

\* C14: a control action naming a job id the store does not hold is
\* answered with not-found and changes nothing: every control request
\* either is answered 404 or changes exactly one existing job record, no
\* control request creates a job record, and a request answered 404 leaves
\* every job record as it is.
C14_UnknownJobChangesNothing ==
  [][controls' # controls =>
       /\ Len(trackJobs') = Len(trackJobs)
       /\ notFound' # notFound => trackJobs' = trackJobs
       /\ notFound' = notFound =>
            \E j \in JobIds :
              \A k \in JobIds : k # j => trackJobs'[k] = trackJobs[k]]_vars

\* C14 witness: a control request was answered 404 while a job was in
\* the store.
C14_Witness ==
  /\ notFound > 0
  /\ \E j \in JobIds : trackJobs[j].status = "processing"

\* C21: when the upload request is answered with the job id, the job
\* record exists with status pending, total count 0 and processed count 0,
\* and the loop has visited no row of the job.
C21_ReturnsBeforeProcessing ==
  \A j \in JobIds :
    /\ history[j].returned.job =
         [status |-> "pending", totalCount |-> 0, processedCount |-> 0]
    /\ history[j].returned.visited = 0

\* C21 witness: a job whose upload request was answered has since had a
\* row visited and its progress stored.
C21_Witness ==
  \E j \in JobIds :
    /\ history[j].returned.job.status = "pending"
    /\ trackJobs[j].processedCount = 1
    /\ trackJobs[j].status = "processing"

\* C22: the pacing interval of every job lies in [50, 1000], and every
\* upload request that carries a file and a numeric or missing delay
\* creates a job (a delay outside the interval is clamped, not refused).
C22_DelayClamped ==
  /\ \A j \in JobIds : loop[j].delay \in MinDelay..MaxDelay
  /\ \A n \in 1..Len(badRequests) :
       badRequests[n].noFile \/ badRequests[n].body.kind = "nan"

IsVisitLog(e) == e.type = "log" /\ e.level \in {"warn", "info"}

\* The logs the loop emits when it takes a row: the warning of a rejected
\* row or the info log before the lookup
VisitLogs(j) == SelectSeq(events[j], IsVisitLog)

C24_DeliveryNeverAffectsJob ==
  [][/\ \A c \in DOMAIN clients :
          clients[c].readyState # "OPEN" =>
            clients'[c].received = clients[c].received
     /\ (\E c \in DOMAIN clients : clients'[c].failures # clients[c].failures) =>
          /\ trackResults' = trackResults
          /\ \A j \in JobIds :
               /\ trackJobs'[j].processedCount = trackJobs[j].processedCount
               /\ trackJobs'[j].status = "failed" =>
                    trackJobs[j].status = "failed"]_vars

\* C25: whatever pause and resume actions are applied, each row of a job is
\* looked up at most once, no stored result is removed or changed, and the
\* loop always goes on with the first row not yet visited.
C25_PauseResumeKeepsProgress ==
  [][/\ Len(trackResults') >= Len(trackResults)
     /\ \A n \in 1..Len(trackResults) :
          trackResults'[n] = trackResults[n] /\ createdBy'[n] = createdBy[n]
     /\ \A j \in JobIds :
          /\ loop'[j].processedCount # loop[j].processedCount =>
               loop'[j].processedCount = loop[j].processedCount + 1
          /\ \A i \in (Len(lookups[j]) + 1)..Len(lookups'[j]) :
               \A k \in 1..(i - 1) :
                 lookups'[j][k].row # lookups'[j][i].row]_vars

\* C25 witness: a job that was paused with its first result stored and
\* then resumed has looked up its second row.
C25_Witness ==
  \E j \in JobIds :
    /\ history[j].resumed
    /\ Len(ResultsOf(j)) >= 1
    /\ Len(lookups[j]) = 2

\* C26: jobs are independent: a step of one job's loop (its failure
\* included) or a control action on that job leaves the stored record of
\* every other job, status and processed count, unchanged.
C26_JobsIndependent ==
  [][\A j \in JobIds :
       (\/ loop'[j] # loop[j]
        \/ trackJobs'[j] # trackJobs[j]
        \/ history'[j] # history[j]) =>
         \A k \in JobIds \ {j} : trackJobs'[k] = trackJobs[k]]_vars

\* C26 witness: one job has failed and another one has gone on to store
\* progress.
C26_Witness ==
  \E j, k \in JobIds :
    /\ j # k
    /\ trackJobs[j].status = "failed"
    /\ trackJobs[k].status = "processing"
    /\ trackJobs[k].processedCount = 1

(* ===================== properties of the splitter ====================== *)
\* The identifier as the splitter looks at it: trimmed, spaces removed
Normalised(mawb) == RemoveSpaces(Trim(mawb))

HyphensOf(s) == {i \in 1..Len(s) : s[i] = "-"}

\* Three digits, then a hyphen if sep = 1, then eight digits, from position i
PatternAt(s, i, sep) ==
  /\ i + 10 + sep <= Len(s)
  /\ \A k \in i..(i + 2) : s[k] \in Digits
  /\ sep = 1 => s[i + 3] = "-"
  /\ \A k \in (i + 3 + sep)..(i + 10 + sep) : s[k] \in Digits

PatternStarts(s) == {i \in 1..Len(s) : \E sep \in {0, 1} : PatternAt(s, i, sep)}

\* The digit-pattern match of s: the groups of the leftmost match, or both
\* parts empty when there is none
PatternResult(s) ==
  IF PatternStarts(s) = {} THEN [prefix |-> <<>>, awbNo |-> <<>>]
  ELSE LET i == CHOOSE k \in PatternStarts(s) : \A m \in PatternStarts(s) : k <= m
           sep == IF PatternAt(s, i, 1) THEN 1 ELSE 0
       IN [prefix |-> SubSeq(s, i, i + 2),
           awbNo |-> SubSeq(s, i + 3 + sep, i + 10 + sep)]

\* C27: for an input that, trimmed and without spaces, is a non-empty
\* prefix, one hyphen and a non-empty number, the splitter returns that
\* prefix and that number unchanged.
C27_HyphenatedVerbatim ==
  splitCall.returned =>
    LET s == Normalised(splitCall.mawb) IN
    \A i \in HyphensOf(s) :
      (HyphensOf(s) = {i} /\ 1 < i /\ i < Len(s)) =>
        splitCall.result = [prefix |-> SubSeq(s, 1, i - 1),
                            awbNo |-> SubSeq(s, i + 1, Len(s))]

\* C27 witness: the splitter has returned the two parts of an input with
\* one hyphen whose prefix is not made of digits only.
C27_Witness ==
  /\ splitCall.returned
  /\ Cardinality(HyphensOf(Normalised(splitCall.mawb))) = 1
  /\ splitCall.result.prefix # <<>> /\ splitCall.result.awbNo # <<>>
  /\ \E k \in 1..Len(splitCall.result.prefix) :
       splitCall.result.prefix[k] \notin Digits

\* C28: for an input without a hyphen that (trimmed and without spaces)
\* contains eleven digits in a row, the splitter returns the first three
\* of the leftmost such run as prefix and the eight that follow as number,
\* whatever other characters surround them.
C28_EmbeddedDigits ==
  splitCall.returned =>
    LET s == Normalised(splitCall.mawb)
        runs == {i \in 1..Len(s) : PatternAt(s, i, 0)}
    IN (HyphensOf(splitCall.mawb) = {} /\ runs # {}) =>
         \E i \in runs :
           /\ \A m \in runs : i <= m
           /\ splitCall.result = [prefix |-> SubSeq(s, i, i + 2),
                                  awbNo |-> SubSeq(s, i + 3, i + 10)]

\* C28 witness: the splitter has returned for an input without a hyphen in
\* which twelve digits in a row follow another character.
C28_Witness ==
  /\ splitCall.returned
  /\ HyphensOf(splitCall.mawb) = {}
  /\ LET s == Normalised(splitCall.mawb) IN
       /\ s # <<>> /\ s[1] \notin Digits
       /\ PatternAt(s, 2, 0) /\ PatternAt(s, 3, 0)
  /\ splitCall.result.prefix = <<"1", "2", "3">>

\* C29: the splitter's output is always two non-empty parts or two empty
\* parts, and for an input with exactly one hyphen and an empty part on
\* one side of it the output is that of the digit-pattern match.
C29_EmptyPartFallsThrough ==
  splitCall.returned =>
    LET s == Normalised(splitCall.mawb) IN
    /\ (splitCall.result.prefix = <<>>) <=> (splitCall.result.awbNo = <<>>)
    /\ (Cardinality(HyphensOf(s)) = 1 /\ (s[1] = "-" \/ s[Len(s)] = "-")) =>
         splitCall.result = PatternResult(s)

\* C30: for an input with two or more hyphens the splitter returns the
\* digit-pattern match (three digits, an optional hyphen, eight digits) if
\* there is one and else rejects with both parts empty; it never returns
\* the parts between the hyphens as such.
C30_ManyHyphensUsePattern ==
  splitCall.returned =>
    LET s == Normalised(splitCall.mawb) IN
    Cardinality(HyphensOf(s)) >= 2 => splitCall.result = PatternResult(s)

\* C30 witness: the splitter has returned the pattern's groups for an
\* input with two hyphens, one of them between the groups.
C30_Witness ==
  /\ splitCall.returned
  /\ LET s == Normalised(splitCall.mawb) IN
       /\ Cardinality(HyphensOf(s)) = 2
       /\ \E i \in 1..Len(s) : PatternAt(s, i, 1)
  /\ splitCall.result.awbNo # <<>>

(* ================= properties of the loop's event stream =============== *)
IsProgressEvent(e) == e.type = "progress"

ProgressEvents(j) == SelectSeq(events[j], IsProgressEvent)

\* C31: the loop emits one progress event per visited row, rejected rows
\* included: between rows the job has as many progress events as rows
\* visited, its k-th progress event has current = k, and every progress
\* event has total = the number of rows of the file.
C31_ProgressPerRow ==
  \A j \in JobIds :
    LET sent == ProgressEvents(j) IN
    /\ \A k \in 1..Len(sent) :
         /\ sent[k].current = k
         /\ sent[k].total = Len(loop[j].file.rows)
    /\ loop[j].pc \in {"row", "delay", "complete", "done"} =>
         Len(sent) = loop[j].processedCount

IsCompleteEvent(e) == e.type = "complete"

CompleteEvents(j) == SelectSeq(events[j], IsCompleteEvent)

\* C32: for a job whose file parses, completed is stored before the complete
\* event is emitted: no complete event exists and the status is not
\* completed until the rows are exhausted, then the status is completed
\* with no complete event yet, and once the loop has ended the job has
\* exactly one complete event, which is its last event and reports the
\* number of rows visited, that is every row of the file.
C32_CompleteAfterStatus ==
  \A j \in JobIds :
    LET sent == CompleteEvents(j) IN
    /\ loop[j].pc \notin {"complete", "done"} =>
         sent = <<>> /\ trackJobs[j].status # "completed"
    /\ loop[j].pc = "complete" =>
         sent = <<>> /\ trackJobs[j].status = "completed"
    /\ loop[j].pc = "done" =>
         /\ Len(sent) = 1
         /\ events[j][Len(events[j])] = sent[1]
         /\ sent[1].processed = loop[j].processedCount
         /\ loop[j].processedCount = Len(loop[j].file.rows)

\* C32 witness: the loop of a job of three rows has ended with its complete
\* event emitted, after a cancel was applied to it.
C32_Witness ==
  \E j \in JobIds :
    /\ loop[j].pc = "done"
    /\ history[j].cancelAt # -1
    /\ Len(loop[j].file.rows) = MaxRows + 1
    /\ Len(CompleteEvents(j)) = 1

\* The results that the lookup calls made so far over rows ought to have
\* left in the store: one for each call that returned, none for a call that
\* threw or is still in flight.
RECURSIVE OkResults(_, _)
OkResults(rows, calls) ==
  IF calls = <<>> THEN <<>>
  ELSE (IF Head(calls).outcome = "ok"
        THEN <<[mawb |-> rows[Head(calls).row],
                prefix |-> KeyOf[rows[Head(calls).row]].prefix,
                awbNo |-> KeyOf[rows[Head(calls).row]].awbNo,
                status |-> Head(calls).status]>>
        ELSE <<>>)
       \o OkResults(rows, Tail(calls))

\* C33: the result store is append-only (a step leaves the stored results
\* as they are and at most adds new ones behind them), and after every step
\* it holds for each job exactly one result per row that was accepted and
\* whose lookup returned, in row order, with the row's raw identifier, the
\* prefix and number the splitter gave and the status the lookup returned,
\* the empty status included.
C33_ResultStoreAppendOnly ==
  [][/\ Len(trackResults') >= Len(trackResults)
     /\ SubSeq(trackResults', 1, Len(trackResults)) = trackResults
     /\ \A j \in DOMAIN loop' :
          /\ MapPayload(ResultsOf(j))' = OkResults(loop[j].file.rows, lookups[j])'
          /\ \A i, k \in DOMAIN lookups'[j] :
               i < k => lookups'[j][i].row < lookups'[j][k].row
          /\ \A i \in DOMAIN lookups'[j] :
               loop'[j].file.rows[lookups'[j][i].row] \notin RejectedIdentifiers]_vars

\* C33 witness: two results are stored for a job, the first of them for a
\* lookup that returned no fields.
C33_Witness ==
  \E j \in JobIds :
    /\ Len(ResultsOf(j)) = 2
    /\ ResultsOf(j)[1].status = ""
    /\ ResultsOf(j)[1].prefix # <<>>

\* C34: while a job's stored status is processing, the total count of its
\* job record is the number of rows of its file, and no step changes a
\* total count that was stored for a job in processing.
C34_TotalCountIsRows ==
  [][\A j \in JobIds :
       trackJobs[j].status = "processing" =>
         /\ trackJobs[j].totalCount = Len(loop[j].file.rows)
         /\ trackJobs'[j].totalCount = trackJobs[j].totalCount]_vars

\* C35: once a write of a result or of the processed count has failed for a
\* job, the job's stored status is failed and the loop visits no row after
\* the one it was at.
C35_StoreFailureFailsJob ==
  \A j \in JobIds :
    history[j].storeFailed # -1 =>
      /\ trackJobs[j].status = "failed"
      /\ loop[j].processedCount = history[j].storeFailed

\* C36: the page's handler applies a message to its log, its progress and
\* its result list only when the message's job id is the page's active job
\* id: a message of any other job, and any message that arrives while no
\* job is active, leaves the three as they are.
C36_ViewerFiltersByJob ==
  [][\A j \in 1..MaxJobs :
       (dashboard'.seen[j] > dashboard.seen[j] /\ dashboard.activeJobId # j) =>
         /\ dashboard'.logs = dashboard.logs
         /\ dashboard'.progress = dashboard.progress
         /\ dashboard'.results = dashboard.results]_vars

\* C37: between any two consecutive lookup calls of a job at least one
\* pacing wait of that job has run to its end, whatever rows with rejected
\* identifiers lie between the two rows looked up.
C37_WaitBetweenLookups ==
  \A j \in JobIds :
    \A i \in 1..(Len(lookups[j]) - 1) :
      lookups[j][i + 1].waits > lookups[j][i].waits

\* C37 witness: a job has looked up its first and its third row, and its
\* second row was rejected.
C37_Witness ==
  \E j \in JobIds :
    /\ Len(lookups[j]) = 2
    /\ lookups[j][1].row + 2 = lookups[j][2].row
    /\ loop[j].file.rows[lookups[j][1].row + 1] \in RejectedIdentifiers

\* C38: under fair scheduling, with lookups that settle and store writes
\* that succeed, there comes a point from which on every job whose file
\* parses with an identifier column and at least one row has ended its loop
\* with a complete event emitted, whatever pause, resume and cancel actions
\* are applied; and whenever a loop stands before its complete event, the
\* status stored for its job is completed.
C38_EventuallyCompleted ==
  /\ <>[](\A j \in JobIds :
            ~Throws(loop[j].file) =>
              loop[j].pc = "done" /\ CompleteEvents(j) # <<>>)
  /\ [](\A j \in JobIds :
          loop[j].pc = "complete" => trackJobs[j].status = "completed")

\* C38 witness: the loop of a job that was paused and resumed meanwhile has
\* ended with completed stored and a complete event emitted.
C38_Witness ==
  \E j \in JobIds :
    /\ loop[j].pc = "done"
    /\ history[j].resumed
    /\ trackJobs[j].status = "completed"
    /\ CompleteEvents(j) # <<>>

\* C39: a job whose file parses to zero data rows never has the stored
\* status processing, has no event of any kind emitted for it, and once its
\* processing has ended its stored status is failed.
C39_EmptyFileFailsSilently ==
  [][\A j \in JobIds :
       (loop[j].file.parse = "ok" /\ loop[j].file.rows = <<>>) =>
         /\ trackJobs'[j].status # "processing"
         /\ events'[j] = <<>>
         /\ loop'[j].pc = "done" => trackJobs'[j].status = "failed"]_vars

====
